---------------------------- MODULE Spec2Model ----------------------------
(***************************************************************************)
(* A model of the ope template matcher (src/ope/src/matcher/reg.rs):       *)
(* the delimiter balancer, the template compiler, the compiled-pattern     *)
(* LRU cache behind a mutex, and Regexp::matches.                          *)
(*                                                                         *)
(* Text is a sequence of characters; a character is a one-character        *)
(* string.  The character "M" stands for any scalar whose UTF-8 encoding   *)
(* takes two bytes (such as U+00E9); every other character takes one.      *)
(***************************************************************************)
EXTENDS Integers, Sequences, FiniteSets, TLC

(***************************************************************************)
(* Results: Ok(v) and Err(kind, text).                                     *)
(***************************************************************************)
Ok(v) == [ok |-> TRUE, val |-> v]

Err(kind, text) == [ok |-> FALSE, err |-> kind, arg |-> text]

\* Option<&str> of str::get: None or Some(text)
None == [some |-> FALSE]

Some(v) == [some |-> TRUE, v |-> v]

(***************************************************************************)
(* Strings: UTF-8 widths, byte offsets, str::get, str::contains.           *)
(***************************************************************************)
\* len_utf8 of a character
Width(c) == IF c = "M" THEN 2 ELSE 1

RECURSIVE ByteLen(_)
\* str::len: the length of the text in bytes
ByteLen(s) == IF s = <<>> THEN 0 ELSE Width(Head(s)) + ByteLen(Tail(s))

\* the byte offset at which the character of (0-based) index k starts
ByteOff(s, k) == ByteLen(SubSeq(s, 1, k))

\* str::is_char_boundary
IsCharBoundary(s, b) == \E k \in 0..Len(s) : ByteOff(s, k) = b

\* the number of characters that end at or before byte offset b (a boundary)
CharsBefore(s, b) == CHOOSE k \in 0..Len(s) : ByteOff(s, k) = b

\* str::get(a..b): the text of the byte range, None when the range is
\* reversed, out of bounds or does not lie on character boundaries
StrGet(s, a, b) ==
    IF a <= b /\ b <= ByteLen(s) /\ IsCharBoundary(s, a) /\ IsCharBoundary(s, b)
    THEN Some(SubSeq(s, CharsBefore(s, a) + 1, CharsBefore(s, b)))
    ELSE None

\* str::contains(char)
Contains(s, c) == \E k \in 1..Len(s) : s[k] = c

(***************************************************************************)
(* The regex crate, for the patterns this program builds: literals, '.',   *)
(* alternation, groups, escaped metacharacters and the two anchors.        *)
(***************************************************************************)
\* regex_syntax::is_meta_character
MetaChars ==
    {"\\", ".", "+", "*", "?", "(", ")", "|", "[", "]", "{", "}", "^", "$",
     "#", "&", "-", "~"}

RECURSIVE escape(_)
\* regex::escape: a backslash before every metacharacter
escape(s) ==
    IF s = <<>> THEN <<>>
    ELSE (IF Head(s) \in MetaChars THEN <<"\\", Head(s)>> ELSE <<Head(s)>>)
         \o escape(Tail(s))

RECURSIVE ParenScan(_, _, _)
\* the group depth after scanning p from index k at depth d: -1 when a group
\* closes before it opens or the pattern ends in a lone backslash
ParenScan(p, k, d) ==
    IF k > Len(p) THEN d
    ELSE IF p[k] = "\\" THEN (IF k = Len(p) THEN -1 ELSE ParenScan(p, k + 2, d))
    ELSE IF p[k] = "(" THEN ParenScan(p, k + 1, d + 1)
    ELSE IF p[k] = ")" THEN (IF d = 0 THEN -1 ELSE ParenScan(p, k + 1, d - 1))
    ELSE ParenScan(p, k + 1, d)

\* whether Regex::new accepts the pattern
ValidRegex(p) == ParenScan(p, 1, 0) = 0

\* Regex::new(pattern).map_err(Error::CompileRegexError): the compiled
\* pattern is represented by its text
RegexNew(p) == IF ValidRegex(p) THEN Ok(p) ELSE Err("CompileRegexError", p)

RECURSIVE CloseOf(_, _, _)
\* the index of the ")" that closes the group opened just before index k
CloseOf(p, k, d) ==
    IF p[k] = "\\" THEN CloseOf(p, k + 2, d)
    ELSE IF p[k] = "(" THEN CloseOf(p, k + 1, d + 1)
    ELSE IF p[k] = ")" THEN (IF d = 0 THEN k ELSE CloseOf(p, k + 1, d - 1))
    ELSE CloseOf(p, k + 1, d)

RECURSIVE FirstBar(_, _, _, _)
\* the index of the first "|" of p[k..hi] outside every group, 0 if none
FirstBar(p, k, hi, d) ==
    IF k > hi THEN 0
    ELSE IF p[k] = "\\" THEN FirstBar(p, k + 2, hi, d)
    ELSE IF p[k] = "(" THEN FirstBar(p, k + 1, hi, d + 1)
    ELSE IF p[k] = ")" THEN FirstBar(p, k + 1, hi, d - 1)
    ELSE IF p[k] = "|" /\ d = 0 THEN k
    ELSE FirstBar(p, k + 1, hi, d)

\* the positions of s reached from the positions P by consuming one
\* character: any character, or the character c
StepChar(s, P, any, c) == {q + 1 : q \in {x \in P : x < Len(s) /\ (any \/ s[x + 1] = c)}}

RECURSIVE AltEnds(_, _, _, _, _)
RECURSIVE ConcatEnds(_, _, _, _, _)
\* the positions of s at which a match of the alternation p[lo..hi] that
\* starts at a position of P can end
AltEnds(p, lo, hi, s, P) ==
    LET b == FirstBar(p, lo, hi, 0)
    IN  IF b = 0 THEN ConcatEnds(p, lo, hi, s, P)
        ELSE ConcatEnds(p, lo, b - 1, s, P) \cup AltEnds(p, b + 1, hi, s, P)

\* the same for the concatenation p[lo..hi], which holds no top-level "|"
ConcatEnds(p, lo, hi, s, P) ==
    IF lo > hi \/ P = {} THEN P
    ELSE IF p[lo] = "(" THEN
        LET c == CloseOf(p, lo + 1, 0)
        IN  ConcatEnds(p, c + 1, hi, s, AltEnds(p, lo + 1, c - 1, s, P))
    ELSE IF p[lo] = "\\" THEN
        ConcatEnds(p, lo + 2, hi, s, StepChar(s, P, FALSE, p[lo + 1]))
    ELSE IF p[lo] = "." THEN
        ConcatEnds(p, lo + 1, hi, s, StepChar(s, P, TRUE, "."))
    ELSE IF p[lo] = "^" THEN ConcatEnds(p, lo + 1, hi, s, P \cap {0})
    ELSE IF p[lo] = "$" THEN ConcatEnds(p, lo + 1, hi, s, P \cap {Len(s)})
    ELSE ConcatEnds(p, lo + 1, hi, s, StepChar(s, P, FALSE, p[lo]))

\* Regex::is_match: whether the pattern matches somewhere in the text
is_match(reg, text) == AltEnds(reg, 1, Len(reg), text, 0..Len(text)) # {}

(***************************************************************************)
(* The Delimiter Balancer.                                                 *)
(***************************************************************************)
RECURSIVE BalanceScanNoFinalCheck(_, _, _, _, _, _, _)
\* a balancer that forgets the test of line 93: an open that is never
\* closed goes unnoticed
BalanceScanNoFinalCheck(s, delimiter_start, delimiter_end, i, level, idx, idxs) ==
    IF i >= Len(s) THEN Ok(idxs)
    ELSE IF s[i + 1] = delimiter_start THEN
        BalanceScanNoFinalCheck(s, delimiter_start, delimiter_end, i + 1, level + 1,
                                IF level + 1 = 1 THEN i ELSE idx, idxs)
    ELSE IF s[i + 1] = delimiter_end THEN
        IF level - 1 < 0 THEN Err("UnbalancedBraces", s)
        ELSE IF level - 1 = 0 THEN
            BalanceScanNoFinalCheck(s, delimiter_start, delimiter_end, i + 1, 0, idx,
                                    idxs \o <<idx, i + 1>>)
        ELSE BalanceScanNoFinalCheck(s, delimiter_start, delimiter_end, i + 1,
                                     level - 1, idx, idxs)
    ELSE BalanceScanNoFinalCheck(s, delimiter_start, delimiter_end, i + 1, level, idx, idxs)

RECURSIVE BalanceScanNoNegativeCheck(_, _, _, _, _, _, _)
\* a balancer that forgets the return of line 83: a close without an open
\* goes unnoticed when a later open brings the level back to zero
BalanceScanNoNegativeCheck(s, delimiter_start, delimiter_end, i, level, idx, idxs) ==
    IF i >= Len(s) THEN
        IF level # 0 THEN Err("UnbalancedBraces", s) ELSE Ok(idxs)
    ELSE IF s[i + 1] = delimiter_start THEN
        BalanceScanNoNegativeCheck(s, delimiter_start, delimiter_end, i + 1, level + 1,
                                   IF level + 1 = 1 THEN i ELSE idx, idxs)
    ELSE IF s[i + 1] = delimiter_end THEN
        IF level - 1 = 0 THEN
            BalanceScanNoNegativeCheck(s, delimiter_start, delimiter_end, i + 1, 0, idx,
                                       idxs \o <<idx, i + 1>>)
        ELSE BalanceScanNoNegativeCheck(s, delimiter_start, delimiter_end, i + 1,
                                        level - 1, idx, idxs)
    ELSE BalanceScanNoNegativeCheck(s, delimiter_start, delimiter_end, i + 1, level, idx, idxs)

RECURSIVE BalanceScanInnerStart(_, _, _, _, _, _, _)
\* a balancer without the test of line 76: every open, nested or not, moves
\* the start of the region
BalanceScanInnerStart(s, delimiter_start, delimiter_end, i, level, idx, idxs) ==
    IF i >= Len(s) THEN
        IF level # 0 THEN Err("UnbalancedBraces", s) ELSE Ok(idxs)
    ELSE IF s[i + 1] = delimiter_start THEN
        BalanceScanInnerStart(s, delimiter_start, delimiter_end, i + 1, level + 1, i, idxs)
    ELSE IF s[i + 1] = delimiter_end THEN
        IF level - 1 < 0 THEN Err("UnbalancedBraces", s)
        ELSE IF level - 1 = 0 THEN
            BalanceScanInnerStart(s, delimiter_start, delimiter_end, i + 1, 0, idx,
                                  idxs \o <<idx, i + 1>>)
        ELSE BalanceScanInnerStart(s, delimiter_start, delimiter_end, i + 1, level - 1,
                                   idx, idxs)
    ELSE BalanceScanInnerStart(s, delimiter_start, delimiter_end, i + 1, level, idx, idxs)

RECURSIVE BalanceScan(_, _, _, _, _, _, _)
\* the loop of delimiter_indices from the character of 0-based index i, with
\* the locals level, idx and idxs
BalanceScan(s, delimiter_start, delimiter_end, i, level, idx, idxs) ==
    IF i >= Len(s) THEN
        IF level # 0 THEN Err("UnbalancedBraces", s) ELSE Ok(idxs)
    ELSE IF s[i + 1] = delimiter_start THEN
        BalanceScan(s, delimiter_start, delimiter_end, i + 1, level + 1,
                    IF level + 1 = 1 THEN i ELSE idx, idxs)
    ELSE IF s[i + 1] = delimiter_end THEN
        IF level - 1 < 0 THEN Err("UnbalancedBraces", s)
        ELSE IF level - 1 = 0 THEN
            BalanceScan(s, delimiter_start, delimiter_end, i + 1, 0, idx,
                        idxs \o <<idx, i + 1>>)
        ELSE BalanceScan(s, delimiter_start, delimiter_end, i + 1, level - 1, idx, idxs)
    ELSE BalanceScan(s, delimiter_start, delimiter_end, i + 1, level, idx, idxs)

\* delimiter_indices: the character indices of the top-level regions, two
\* per region (start inclusive, end exclusive)
delimiter_indices(s, delimiter_start, delimiter_end) ==
    BalanceScan(s, delimiter_start, delimiter_end, 0, 0, 0, <<>>)

(***************************************************************************)
(* The Template Compiler.                                                  *)
(***************************************************************************)
RECURSIVE BuildLoop(_, _, _, _, _)
\* the loop of build_regex with the locals i, end and buffer; idx holds
\* character indices and the slices are taken at byte offsets
BuildLoop(tpl, idx, i, end, buffer) ==
    IF i >= Len(idx) THEN
        LET raw == StrGet(tpl, end, ByteLen(tpl))
        IN  IF ~raw.some THEN Err("NotIndex", tpl)
            ELSE Ok(buffer \o escape(raw.v) \o <<"$">>)
    ELSE
        LET temp_id == idx[i + 1]
            raw     == StrGet(tpl, end, temp_id)
        IN  IF ~raw.some THEN Err("NotIndex", tpl)
            ELSE IF i + 1 >= Len(idx) THEN Err("NotIndex", tpl)
            ELSE
                LET end2 == idx[i + 2]
                    patt == StrGet(tpl, temp_id + 1, end2 - 1)
                IN  IF ~patt.some THEN Err("NotIndex", tpl)
                    ELSE IF ~ValidRegex(<<"^">> \o patt.v \o <<"$">>)
                         THEN Err("CompileRegexError", <<"^">> \o patt.v \o <<"$">>)
                    ELSE BuildLoop(tpl, idx, i + 2, end2,
                                   buffer \o escape(raw.v) \o <<"(">> \o patt.v \o <<")">>)

\* build_regex: the anchored composite pattern of a template
build_regex(tpl, delimiter_start, delimiter_end) ==
    LET idx == delimiter_indices(tpl, delimiter_start, delimiter_end)
    IN  IF ~idx.ok THEN idx ELSE BuildLoop(tpl, idx.val, 0, 0, <<"^">>)

(***************************************************************************)
(* The inputs of the model.                                                *)
(***************************************************************************)
\* the longest haystack of a call
MaxHay == 2

\* the largest capacity given to Regexp::new
MaxCap == 2

\* the delimiter pair of the policy documents, and a second pair
D1 == <<"<", ">">>

D2 == <<"(", ")">>

\* "a.b": a literal with a metacharacter
TLit == <<"a", ".", "b">>

\* "<a.b>": one region, compiles to ^(a.b)$
TDot == <<"<", "a", ".", "b", ">">>

\* "a.<b>": a literal span and a region, compiles to ^a\.(b)$
TEsc == <<"a", ".", "<", "b", ">">>

\* "<axb|c>": a disjunction, compiles to ^(axb|c)$
TAlt == <<"<", "a", "x", "b", "|", "c", ">">>

\* "<a": an open without a close
TOpen == <<"<", "a">>

\* "a>": a close without any open
TClose == <<"a", ">">>

\* ">a<": a close before the open
TCloseOpen == <<">", "a", "<">>

\* "<(>": a region that is no regular expression
TBad == <<"<", "(", ">">>

\* "<a.b>(b)": regions under either delimiter pair
TBoth == <<"<", "a", ".", "b", ">", "(", "b", ")">>

Templates == {TLit, TDot, TEsc, TAlt, TOpen, TClose, TCloseOpen, TBad}

Needles == {<<"a", ".", "b">>, <<"a", "x", "b">>}

\* every sequence over S of length at most n
SeqsUpTo(S, n) == UNION {[1..k -> S] : k \in 0..n}

Haystacks == SeqsUpTo(Templates, MaxHay)

\* the haystacks of the calls that share one Matcher concurrently
SharedHaystacks == {<<TDot>>, <<TAlt>>, <<TLit, TDot>>, <<TOpen>>}

\* the haystacks of the calls that use either delimiter pair
DelimHaystacks == {<<TBoth>>, <<TDot>>, <<TLit, TBoth>>}

DelimNeedles == Needles \cup {<<"a", ".", "b", "(", "b", ")">>, <<"<", "a", ".", "b", ">", "b">>}

\* the longest template given to the compiler on its own
MaxLen == 4

PureChars == {"a", ".", "|", "<", ">", "(", ")", "M"}

\* "<create|delete>"
TCreateDelete ==
    <<"<", "c", "r", "e", "a", "t", "e", "|", "d", "e", "l", "e", "t", "e", ">">>

\* "foo<a|b>bar<c|d>baz"
TFooBarBaz ==
    <<"f", "o", "o", "<", "a", "|", "b", ">", "b", "a", "r", "<", "c", "|", "d", ">",
      "b", "a", "z">>

\* "f.o<a|b>b+r<c|d>b(z": the same with metacharacters in the literal spans
TMetaSpans ==
    <<"f", ".", "o", "<", "a", "|", "b", ">", "b", "+", "r", "<", "c", "|", "d", ">",
      "b", "(", "z">>

\* "<a<b>><c>": a region with a nested pair, and a region right after it
TNested == <<"<", "a", "<", "b", ">", ">", "<", "c", ">">>

PureTemplates ==
    SeqsUpTo(PureChars, MaxLen) \cup {TCreateDelete, TFooBarBaz, TMetaSpans, TNested}

Threads == {1, 2}

NoThread == 0

(***************************************************************************)
(* The state.                                                              *)
(***************************************************************************)
VARIABLES
    made,       \* the result of Regexp::new: NotMade, Ok(capacity) or Err
    lru,        \* the LruCache: <<key, Regex>> entries, most recently used first
    lock,       \* the thread that holds the Mutex guard, or NoThread
    poisoned,   \* whether the Mutex is poisoned
    pc,         \* pc[t]: where thread t stands in matches
    delims,     \* delims[t]: <<delimiter_start, delimiter_end>> of the call
    haystack,   \* haystack[t]
    needle,     \* needle[t]
    pos,        \* pos[t]: the 1-based position of h in haystack[t]
    reg,        \* reg[t]: the Regex the thread holds (the cached or the new one)
    ret,        \* ret[t]: what the call returned, NoRet while it runs
    ref,        \* history: ref[t][k] is RefDecide of entry k of the call
    trace,      \* trace[t]: history: the <<position, step>> taken by the call
    hist,       \* history: the keys hit or inserted, most recent first, no repeats
    pairs,      \* history: the delimiter pairs the calls have used so far
    tpl,        \* the template given to the compiler on its own
    bal,        \* the result of delimiter_indices(tpl), Pending before the call
    out         \* the result of build_regex(tpl), Pending before the call

cacheVars == <<lru, lock, poisoned, hist>>

callVars == <<pc, delims, haystack, needle, pos, reg, ret, ref, trace>>

pureVars == <<tpl, bal, out>>

vars == <<made, cacheVars, pairs, callVars, pureVars>>

NotMade == [made |-> FALSE]

NoRet == [returned |-> FALSE]

Pending == [pending |-> TRUE]

(***************************************************************************)
(* The lru crate's LruCache, as matches uses it.                           *)
(***************************************************************************)
LruKeys(c) == [k \in 1..Len(c) |-> c[k][1]]

\* LruCache::contains
LruHas(c, key) == \E k \in 1..Len(c) : c[k][1] = key

\* a lookup that returns the pattern of the most recent entry, whatever
\* the key
LruValueMostRecent(c, key) == c[1][2]

\* the Regex stored under a key that is present
LruValue(c, key) == c[CHOOSE k \in 1..Len(c) : c[k][1] = key][2]

\* the entries of c without the one of the key
Without(c, key) == SelectSeq(c, LAMBDA e : e[1] # key)

\* a get that does not update the recency (LruCache::peek)
LruGetNoPromote(c, key) == c

\* the cache after LruCache::get of a key that is present: the entry
\* becomes the most recently used
LruGet(c, key) == <<<<key, LruValue(c, key)>>>> \o Without(c, key)

\* a put that does not look for the key: a present key is stored twice
LruPutBlind(c, cap, key, v) ==
    IF Len(c) >= cap THEN <<<<key, v>>>> \o SubSeq(c, 1, Len(c) - 1)
    ELSE <<<<key, v>>>> \o c

\* a put that never evicts: the cache grows past its capacity
LruPutNoEvict(c, cap, key, v) ==
    IF LruHas(c, key) THEN <<<<key, v>>>> \o Without(c, key)
    ELSE <<<<key, v>>>> \o c

\* the cache after LruCache::put: a present key is overwritten and becomes
\* the most recent; a new key evicts the least recently used entry of a
\* full cache
LruPut(c, cap, key, v) ==
    IF LruHas(c, key) THEN <<<<key, v>>>> \o Without(c, key)
    ELSE IF Len(c) >= cap THEN <<<<key, v>>>> \o SubSeq(c, 1, Len(c) - 1)
    ELSE <<<<key, v>>>> \o c

\* the history after a hit or an insertion of the key
Touch(h, key) == <<key>> \o SelectSeq(h, LAMBDA k : k # key)

(***************************************************************************)
(* Regexp::new.                                                            *)
(***************************************************************************)
\* a constructor that takes any capacity
RegexpNewUnchecked(cache_size) == Ok(cache_size)

\* NonZeroUsize::new(cache_size).ok_or(Error::InvalidCacheSize(cache_size))
RegexpNew(cache_size) ==
    IF cache_size = 0 THEN Err("InvalidCacheSize", cache_size) ELSE Ok(cache_size)

New ==
    /\ made = NotMade
    /\ \E cache_size \in 0..MaxCap : made' = RegexpNew(cache_size)
    /\ UNCHANGED <<cacheVars, pairs, callVars, pureVars>>

(***************************************************************************)
(* Regexp::matches, one step at a time.                                    *)
(***************************************************************************)
\* lines 52-53: build_regex and Regex::new
Compile(h, delimiter_start, delimiter_end) ==
    LET pattern == build_regex(h, delimiter_start, delimiter_end)
    IN  IF ~pattern.ok THEN pattern ELSE RegexNew(pattern.val)

\* one template decided without any cache: Ok(satisfied) or the error
RefDecide(h, text, d) ==
    IF ~Contains(h, d[1]) THEN Ok(h = text)
    ELSE LET r == Compile(h, d[1], d[2])
         IN  IF ~r.ok THEN r ELSE Ok(is_match(r.val, text))

\* h, the haystack entry the loop of thread t is at
H(t) == haystack[t][pos[t]]

\* the guard of the Mutex goes out of scope
Unlock(t) == IF lock = t THEN NoThread ELSE lock

\* a loop without the literal path
IsLiteralNever(h, delimiter_start) == FALSE

\* whether a template takes the literal path (line 33)
IsLiteral(h, delimiter_start) == ~Contains(h, delimiter_start)

\* the outcome of the literal test (lines 34-37): TRUE returns Ok(true)
LiteralSatisfied(h, text) == h = text

\* a return that swallows an error: the loop goes on
FinishSwallowsErr(t, r) ==
    IF r.ok THEN /\ ret' = [ret EXCEPT ![t] = r]
                 /\ pc' = [pc EXCEPT ![t] = "done"]
    ELSE /\ ret' = ret
         /\ pc' = [pc EXCEPT ![t] = "loop"]

\* the call returns r
Finish(t, r) ==
    /\ ret' = [ret EXCEPT ![t] = r]
    /\ pc' = [pc EXCEPT ![t] = "done"]

\* the call records a step of its history
Log(t, step) == trace' = [trace EXCEPT ![t] = Append(@, <<pos[t], step>>)]

\* a caller enters matches
Call(t, Hs, Ns, Ds) ==
    /\ made # NotMade /\ made.ok
    /\ pc[t] = "idle"
    /\ \E h \in Hs, n \in Ns, d \in Ds :
        /\ haystack' = [haystack EXCEPT ![t] = h]
        /\ needle' = [needle EXCEPT ![t] = n]
        /\ delims' = [delims EXCEPT ![t] = d]
        /\ pairs' = pairs \cup {d}
        /\ ref' = [ref EXCEPT ![t] = [k \in 1..Len(h) |-> RefDecide(h[k], n, d)]]
    /\ pos' = [pos EXCEPT ![t] = 1]
    /\ pc' = [pc EXCEPT ![t] = "loop"]
    /\ UNCHANGED <<made, cacheVars, reg, ret, trace, pureVars>>

\* lines 32-38 and 66: the next entry of the haystack, and the literal path
Loop(t) ==
    /\ pc[t] = "loop"
    /\ IF pos[t] > Len(haystack[t]) THEN
            /\ Finish(t, Ok(FALSE))
            /\ UNCHANGED <<pos, trace>>
       ELSE IF IsLiteral(H(t), delims[t][1]) THEN
            /\ Log(t, "literal")
            /\ IF LiteralSatisfied(H(t), needle[t]) THEN
                    /\ Finish(t, Ok(TRUE))
                    /\ UNCHANGED pos
               ELSE /\ pos' = [pos EXCEPT ![t] = @ + 1]
                    /\ UNCHANGED <<pc, ret>>
       ELSE /\ pc' = [pc EXCEPT ![t] = "lock_r"]
            /\ UNCHANGED <<pos, ret, trace>>
    /\ UNCHANGED <<made, pairs, cacheVars, delims, haystack, ref, needle, reg, pureVars>>

\* a lock that does not wait for the guard of another thread
LockNoWait(t, at, next) ==
    /\ pc[t] = at
    /\ IF poisoned THEN
            /\ Finish(t, Err("LockError", <<>>))
            /\ UNCHANGED lock
       ELSE /\ lock' = t
            /\ pc' = [pc EXCEPT ![t] = next]
            /\ UNCHANGED ret
    /\ Log(t, "lock")
    /\ UNCHANGED <<made, pairs, lru, poisoned, hist, delims, haystack, ref, needle, pos, reg,
                   pureVars>>

\* Mutex::lock (lines 40-43 and 55-58): blocks while another thread holds
\* the guard, fails when the mutex is poisoned
Lock(t, at, next) ==
    /\ pc[t] = at
    /\ lock = NoThread
    /\ IF poisoned THEN
            /\ Finish(t, Err("LockError", <<>>))
            /\ UNCHANGED lock
       ELSE /\ lock' = t
            /\ pc' = [pc EXCEPT ![t] = next]
            /\ UNCHANGED ret
    /\ Log(t, "lock")
    /\ UNCHANGED <<made, pairs, lru, poisoned, hist, delims, haystack, ref, needle, pos, reg,
                   pureVars>>

LockR(t) == Lock(t, "lock_r", "get")

\* a lookup whose guard outlives the block of lines 39-50: after a miss the
\* thread builds with the lock held
GetKeepsGuard(t) ==
    /\ pc[t] = "get"
    /\ lock = t
    /\ IF LruHas(lru, H(t)) THEN
            /\ reg' = [reg EXCEPT ![t] = LruValue(lru, H(t))]
            /\ lru' = LruGet(lru, H(t))
            /\ hist' = Touch(hist, H(t))
            /\ pc' = [pc EXCEPT ![t] = "hit"]
            /\ Log(t, "hit")
       ELSE /\ pc' = [pc EXCEPT ![t] = "build"]
            /\ Log(t, "miss")
            /\ UNCHANGED <<reg, lru, hist>>
    /\ UNCHANGED <<made, pairs, lock, poisoned, delims, haystack, ref, needle, pos, ret, pureVars>>

\* line 44: rlru.get(h); on a miss the guard is dropped at line 50
Get(t) ==
    /\ pc[t] = "get"
    /\ lock = t
    /\ IF LruHas(lru, H(t)) THEN
            /\ reg' = [reg EXCEPT ![t] = LruValue(lru, H(t))]
            /\ lru' = LruGet(lru, H(t))
            /\ hist' = Touch(hist, H(t))
            /\ pc' = [pc EXCEPT ![t] = "hit"]
            /\ Log(t, "hit")
            /\ UNCHANGED lock
       ELSE /\ lock' = Unlock(t)
            /\ pc' = [pc EXCEPT ![t] = "build"]
            /\ Log(t, "miss")
            /\ UNCHANGED <<reg, lru, hist>>
    /\ UNCHANGED <<made, pairs, poisoned, delims, haystack, ref, needle, pos, ret, pureVars>>

\* a hit whose continue leaves the guard alive: the lock is released by
\* the return of line 46 only
HitEvalKeepsGuard(t) ==
    /\ pc[t] = "hit"
    /\ lock = t
    /\ IF is_match(reg[t], needle[t]) THEN
            /\ Finish(t, Ok(TRUE))
            /\ lock' = Unlock(t)
            /\ UNCHANGED pos
       ELSE /\ pos' = [pos EXCEPT ![t] = @ + 1]
            /\ pc' = [pc EXCEPT ![t] = "loop"]
            /\ UNCHANGED <<ret, lock>>
    /\ Log(t, "hit_eval")
    /\ UNCHANGED <<made, pairs, lru, poisoned, hist, delims, haystack, ref, needle, reg, pureVars>>

\* lines 45-49: the cached pattern is evaluated inside the block of the
\* guard, which is dropped by the return or the continue
HitEval(t) ==
    /\ pc[t] = "hit"
    /\ lock = t
    /\ IF is_match(reg[t], needle[t]) THEN
            /\ Finish(t, Ok(TRUE))
            /\ UNCHANGED pos
       ELSE /\ pos' = [pos EXCEPT ![t] = @ + 1]
            /\ pc' = [pc EXCEPT ![t] = "loop"]
            /\ UNCHANGED ret
    /\ lock' = Unlock(t)
    /\ Log(t, "hit_eval")
    /\ UNCHANGED <<made, pairs, lru, poisoned, hist, delims, haystack, ref, needle, reg, pureVars>>

\* a build that falls back on the escaped template text when the template
\* cannot be built: the failure reaches neither the caller nor the insertion
BuildLenient(t) ==
    /\ pc[t] = "build"
    /\ \E pattern \in {build_regex(H(t), delims[t][1], delims[t][2])} :
        \E r \in {IF ~pattern.ok THEN Ok(escape(H(t))) ELSE RegexNew(pattern.val)} :
            IF ~r.ok THEN
                /\ Finish(t, r)
                /\ UNCHANGED reg
            ELSE /\ reg' = [reg EXCEPT ![t] = r.val]
                 /\ pc' = [pc EXCEPT ![t] = "lock_w"]
                 /\ UNCHANGED ret
    /\ Log(t, "build")
    /\ UNCHANGED <<made, pairs, cacheVars, delims, haystack, ref, needle, pos, pureVars>>

\* lines 52-53 in the loop: pattern is the result of build_regex, r the
\* result of Regex::new, and the first error returns
Build(t) ==
    /\ pc[t] = "build"
    /\ \E pattern \in {build_regex(H(t), delims[t][1], delims[t][2])} :
        \E r \in {IF ~pattern.ok THEN pattern ELSE RegexNew(pattern.val)} :
            IF ~r.ok THEN
                /\ Finish(t, r)
                /\ UNCHANGED reg
            ELSE /\ reg' = [reg EXCEPT ![t] = r.val]
                 /\ pc' = [pc EXCEPT ![t] = "lock_w"]
                 /\ UNCHANGED ret
    /\ Log(t, "build")
    /\ UNCHANGED <<made, pairs, cacheVars, delims, haystack, ref, needle, pos, pureVars>>

LockW(t) == Lock(t, "lock_w", "put")

\* lines 59-60: wlru.put(h, reg.clone()), then the guard is dropped
Put(t) ==
    /\ pc[t] = "put"
    /\ lock = t
    /\ lru' = LruPut(lru, made.val, H(t), reg[t])
    /\ hist' = Touch(hist, H(t))
    /\ lock' = Unlock(t)
    /\ pc' = [pc EXCEPT ![t] = "eval"]
    /\ Log(t, "put")
    /\ UNCHANGED <<made, pairs, poisoned, delims, haystack, ref, needle, pos, reg, ret, pureVars>>

\* an evaluation without the return of line 63: the loop goes on after a
\* match
EvalKeepsGoing(t) ==
    /\ pc[t] = "eval"
    /\ pos' = [pos EXCEPT ![t] = @ + 1]
    /\ pc' = [pc EXCEPT ![t] = "loop"]
    /\ Log(t, "eval")
    /\ UNCHANGED <<made, pairs, cacheVars, delims, haystack, ref, needle, reg, ret, pureVars>>

\* lines 62-64: the new pattern is evaluated
Eval(t) ==
    /\ pc[t] = "eval"
    /\ IF is_match(reg[t], needle[t]) THEN
            /\ Finish(t, Ok(TRUE))
            /\ UNCHANGED pos
       ELSE /\ pos' = [pos EXCEPT ![t] = @ + 1]
            /\ pc' = [pc EXCEPT ![t] = "loop"]
            /\ UNCHANGED ret
    /\ Log(t, "eval")
    /\ UNCHANGED <<made, pairs, cacheVars, delims, haystack, ref, needle, reg, pureVars>>

\* the caller takes the result; the locals of the call are gone
Return(t) ==
    /\ pc[t] = "done"
    /\ pc' = [pc EXCEPT ![t] = "idle"]
    /\ delims' = [delims EXCEPT ![t] = D1]
    /\ haystack' = [haystack EXCEPT ![t] = <<>>]
    /\ ref' = [ref EXCEPT ![t] = <<>>]
    /\ needle' = [needle EXCEPT ![t] = <<>>]
    /\ pos' = [pos EXCEPT ![t] = 0]
    /\ reg' = [reg EXCEPT ![t] = <<>>]
    /\ ret' = [ret EXCEPT ![t] = NoRet]
    /\ trace' = [trace EXCEPT ![t] = <<>>]
    /\ UNCHANGED <<made, pairs, cacheVars, pureVars>>

\* a thread panics while it holds the guard: the call unwinds and the
\* MutexGuard's drop poisons the mutex
Panic(t) ==
    /\ lock = t
    /\ poisoned' = TRUE
    /\ lock' = NoThread
    /\ pc' = [pc EXCEPT ![t] = "idle"]
    /\ delims' = [delims EXCEPT ![t] = D1]
    /\ haystack' = [haystack EXCEPT ![t] = <<>>]
    /\ ref' = [ref EXCEPT ![t] = <<>>]
    /\ needle' = [needle EXCEPT ![t] = <<>>]
    /\ pos' = [pos EXCEPT ![t] = 0]
    /\ reg' = [reg EXCEPT ![t] = <<>>]
    /\ trace' = [trace EXCEPT ![t] = <<>>]
    /\ UNCHANGED <<made, pairs, lru, hist, ret, pureVars>>

\* the steps of a call once it is entered
Step(t) ==
    \/ Loop(t)
    \/ LockR(t)
    \/ Get(t)
    \/ HitEval(t)
    \/ Build(t)
    \/ LockW(t)
    \/ Put(t)
    \/ Eval(t)
    \/ Return(t)

(***************************************************************************)
(* The compiler on its own.                                                *)
(***************************************************************************)
Balance ==
    /\ bal = Pending
    /\ bal' = delimiter_indices(tpl, D1[1], D1[2])
    /\ UNCHANGED <<made, pairs, cacheVars, callVars, tpl, out>>

BuildRegex ==
    /\ out = Pending
    /\ out' = build_regex(tpl, D1[1], D1[2])
    /\ UNCHANGED <<made, pairs, cacheVars, callVars, tpl, bal>>

(***************************************************************************)
(* The specifications.                                                     *)
(***************************************************************************)
InitMatcher ==
    /\ made = NotMade
    /\ lru = <<>>
    /\ lock = NoThread
    /\ poisoned = FALSE
    /\ hist = <<>>
    /\ pairs = {}
    /\ pc = [t \in Threads |-> "idle"]
    /\ delims = [t \in Threads |-> D1]
    /\ haystack = [t \in Threads |-> <<>>]
    /\ ref = [t \in Threads |-> <<>>]
    /\ needle = [t \in Threads |-> <<>>]
    /\ pos = [t \in Threads |-> 0]
    /\ reg = [t \in Threads |-> <<>>]
    /\ ret = [t \in Threads |-> NoRet]
    /\ trace = [t \in Threads |-> <<>>]

Init ==
    /\ InitMatcher
    /\ tpl = <<>>
    /\ bal = Pending
    /\ out = Pending

\* callers on several threads share one Matcher, one delimiter pair
Next ==
    \/ New
    \/ \E t \in Threads : Call(t, SharedHaystacks, Needles, {D1})
    \/ \E t \in Threads : Step(t)

Spec == Init /\ [][Next]_vars

\* a thread inside matches keeps running (the steps that wait for nothing)
Runs(t) == Loop(t) \/ Get(t) \/ HitEval(t) \/ Build(t) \/ Put(t) \/ Eval(t)

\* a thread that waits for the lock
Acquires(t) == LockR(t) \/ LockW(t)

\* the threads are scheduled and the lock is fair: a thread that finds the
\* lock free again and again gets it
Fairness == \A t \in Threads : WF_vars(Runs(t)) /\ SF_vars(Acquires(t))

\* "<a>" and "<b>": compile to ^(a)$ and ^(b)$
TA == <<"<", "a", ">">>

TB == <<"<", "b", ">">>

\* the haystacks and needles of the calls whose termination is followed:
\* a template that satisfies the needle or not, alone or after another one
LiveHaystacks == {<<TA>>, <<TB, TA>>}

LiveNeedles == {<<"a">>}

\* callers on several threads share one Matcher
NextLive ==
    \/ New
    \/ \E t \in Threads : Call(t, LiveHaystacks, LiveNeedles, {D1})
    \/ \E t \in Threads : Step(t)

SpecLive == Init /\ [][NextLive]_vars /\ Fairness

\* one caller at a time, one delimiter pair
NextSeq ==
    \/ New
    \/ Call(1, Haystacks, Needles, {D1})
    \/ Step(1)

SpecSeq == Init /\ [][NextSeq]_vars

\* one caller at a time, either delimiter pair
NextDelims ==
    \/ New
    \/ Call(1, DelimHaystacks, DelimNeedles, {D1, D2})
    \/ Step(1)

SpecDelims == Init /\ [][NextDelims]_vars

\* one caller at a time, and a panic inside a critical section
NextFault ==
    \/ New
    \/ Call(1, Haystacks, Needles, {D1})
    \/ Step(1)
    \/ Panic(1)

SpecFault == Init /\ [][NextFault]_vars

\* the balancer and the compiler on every template of PureTemplates
InitPure ==
    /\ InitMatcher
    /\ tpl \in PureTemplates
    /\ bal = Pending
    /\ out = Pending

NextPure ==
    \/ Balance
    \/ BuildRegex

SpecPure == InitPure /\ [][NextPure]_vars

(***************************************************************************)
(* What the properties are stated with.                                    *)
(***************************************************************************)
Range(f) == {f[k] : k \in 1..Len(f)}

\* the threads that are inside matches
Active == {t \in Threads : pc[t] # "idle"}

\* where the cache-less evaluation of the call of thread t stops: the
\* first entry that is satisfied or fails, Len(haystack[t]) + 1 when there
\* is none
StopAt(t) ==
    LET stops == {k \in 1..Len(ref[t]) : ~ref[t][k].ok \/ ref[t][k].val}
    IN  IF stops = {} THEN Len(ref[t]) + 1
        ELSE CHOOSE k \in stops : \A j \in stops : k <= j

\* what the cache-less evaluation returns for the call of thread t
Expected(t) == IF StopAt(t) > Len(ref[t]) THEN Ok(FALSE) ELSE ref[t][StopAt(t)]

(***************************************************************************)
(* C1: with one delimiter pair, a call returns what the cache-less         *)
(* evaluation of its haystack returns, whatever earlier calls left in the  *)
(* cache, and a pattern served by the cache is the pattern a miss would    *)
(* compile for that template.                                              *)
(***************************************************************************)
C1_MatchesAsReference ==
    \A t \in Threads :
        /\ pc[t] = "done" => ret[t] = Expected(t)
        /\ pc[t] = "hit" => Ok(reg[t]) = Compile(H(t), delims[t][1], delims[t][2])

\* a call answered true by a pattern that came out of the cache
C1_Witness ==
    /\ pc[1] = "done"
    /\ ret[1] = Ok(TRUE)
    /\ <<pos[1], "hit_eval">> \in Range(trace[1])
    /\ Len(lru) = 2

(***************************************************************************)
(* C2: short-circuit.  Once the entry at position i is satisfied, the call *)
(* returns Ok(true) and takes no step (lock, lookup, build, insert) for an *)
(* entry after i, malformed or not.                                        *)
(***************************************************************************)
C2_ShortCircuit ==
    \A t \in Active :
        LET i == StopAt(t)
        IN  (i <= Len(haystack[t]) /\ Expected(t) = Ok(TRUE)) =>
                /\ pos[t] <= i
                /\ \A e \in Range(trace[t]) : e[1] <= i
                /\ pc[t] = "done" => ret[t] = Ok(TRUE)

\* a call that returned true with an unbalanced entry right after the
\* satisfied one
C2_Witness ==
    /\ pc[1] = "done"
    /\ ret[1] = Ok(TRUE)
    /\ haystack[1] = <<TDot, TOpen>>
    /\ pos[1] = 1

(***************************************************************************)
(* C3: fail-fast.  When the balancer, the compiler or the lock fails for   *)
(* the entry at position i, that step is the last one of the call and the  *)
(* call returns that error: no later entry is tried, no Ok is returned.    *)
(***************************************************************************)
\* the error of the step e of the call of thread t, if it failed
StepError(t, e) ==
    IF e[2] = "build" THEN Compile(haystack[t][e[1]], delims[t][1], delims[t][2])
    ELSE IF e[2] = "lock" /\ poisoned THEN Err("LockError", <<>>)
    ELSE Ok(TRUE)

\* C3: a failed build or lock is the last step of the call, and its error
\* is what the call returns
C3_FailFast ==
    \A t \in Active :
        \A k \in 1..Len(trace[t]) :
            LET r == StepError(t, trace[t][k])
            IN  ~r.ok =>
                    /\ k = Len(trace[t])
                    /\ pc[t] = "done"
                    /\ ret[t] = r
                    /\ pos[t] = trace[t][k][1]

\* the lock fails for the first entry although the second entry is a
\* literal equal to the needle
C3_Witness ==
    /\ pc[1] = "done"
    /\ ret[1] = Err("LockError", <<>>)
    /\ haystack[1] = <<TDot, TLit>>
    /\ needle[1] = TLit

(***************************************************************************)
(* C4: the literal fast path.  A step of the loop at an entry without the  *)
(* delimiter-start character leaves the cache, the lock and the history    *)
(* of hits and insertions as they are, builds nothing, and decides the     *)
(* entry by equality with the needle.                                      *)
(***************************************************************************)
C4_LiteralStep(t) ==
    (/\ pc[t] = "loop"
     /\ pos[t] <= Len(haystack[t])
     /\ ~Contains(haystack[t][pos[t]], delims[t][1])
     /\ <<pc[t], pos[t], trace[t]>>' # <<pc[t], pos[t], trace[t]>>) =>
        /\ UNCHANGED <<lru, lock, poisoned, hist, reg>>
        /\ trace'[t] = Append(trace[t], <<pos[t], "literal">>)
        /\ IF haystack[t][pos[t]] = needle[t]
           THEN pc'[t] = "done" /\ ret'[t] = Ok(TRUE)
           ELSE pc'[t] = "loop" /\ pos'[t] = pos[t] + 1 /\ ret'[t] = NoRet

\* C4: every step of every thread at a literal entry is such a step
C4_LiteralFastPath == [][\A t \in Threads : C4_LiteralStep(t)]_vars

\* "a.b" is not satisfied by "axb", and the call never went to the cache
C4_Witness ==
    /\ pc[1] = "done"
    /\ haystack[1] = <<TLit>>
    /\ needle[1] = <<"a", "x", "b">>
    /\ ret[1] = Ok(FALSE)
    /\ trace[1] = <<<<1, "literal">>>>

(***************************************************************************)
(* C5: unbalanced templates.  As specified: a call that reaches a template *)
(* whose nesting closes before it opens, or never returns to zero, fails   *)
(* with UnbalancedBraces(template).  The code does so only for a template  *)
(* that contains the delimiter-start character: "abc>" takes the literal   *)
(* path of lines 33-38 and is never balanced.                              *)
(***************************************************************************)
\* the number of occurrences of c among the first k characters of s
Count(s, c, k) == Cardinality({j \in 1..k : s[j] = c})

\* the nesting closes before it opens, or does not return to zero
Malformed(h, d) ==
    \/ \E k \in 1..Len(h) : Count(h, d[2], k) > Count(h, d[1], k)
    \/ Count(h, d[1], Len(h)) # Count(h, d[2], Len(h))

\* the call of thread t reaches position i: no earlier entry is satisfied
\* or fails
Reaches(t, i) ==
    \A j \in 1..(i - 1) : ref[t][j] = Ok(FALSE)

\* C5 as it stands: every malformed template that a call reaches makes the
\* call fail with UnbalancedBraces(template)
C5_AnyMalformedFails ==
    \A t \in Threads :
        pc[t] = "done" =>
            \A i \in 1..Len(haystack[t]) :
                (Malformed(haystack[t][i], delims[t]) /\ Reaches(t, i)) =>
                    ret[t] = Err("UnbalancedBraces", haystack[t][i])

\* C5 as the code has it: the error is raised for the malformed templates
\* that contain the delimiter-start character; a malformed template
\* without it is compared with the needle and raises nothing
C5_MalformedWithStartFails ==
    \A t \in Threads :
        pc[t] = "done" =>
            \A i \in 1..Len(haystack[t]) :
                (Malformed(haystack[t][i], delims[t]) /\ Reaches(t, i)) =>
                    IF Contains(haystack[t][i], delims[t][1])
                    THEN ret[t] = Err("UnbalancedBraces", haystack[t][i])
                    ELSE IF haystack[t][i] = needle[t] THEN ret[t] = Ok(TRUE)
                    ELSE ret[t] # Err("UnbalancedBraces", haystack[t][i])

\* the close before the open, reached after an entry that did not match
C5_Witness ==
    /\ pc[1] = "done"
    /\ haystack[1] = <<TAlt, TCloseOpen>>
    /\ ret[1] = Err("UnbalancedBraces", TCloseOpen)
    /\ <<1, "hit_eval">> \in Range(trace[1])

(***************************************************************************)
(* C6: LRU eviction, one caller at a time, capacity N.  A lookup of        *)
(* template A is a hit exactly when A is among the N templates most        *)
(* recently hit or inserted; otherwise A is compiled again.  An insertion  *)
(* that evicts, evicts the cached template whose last hit or insertion is  *)
(* the oldest.                                                             *)
(***************************************************************************)
\* key is among the n most recent of the history h
InWindow(h, key, n) == \E k \in 1..Len(h) : k <= n /\ h[k] = key

\* the place of a key in the history (1: the most recent)
Age(h, key) == CHOOSE k \in 1..Len(h) : h[k] = key

C6_GetStep(t) ==
    (pc[t] = "get" /\ pc'[t] # "get") =>
        IF InWindow(hist, H(t), made.val)
        THEN pc'[t] = "hit" /\ trace'[t] = Append(trace[t], <<pos[t], "hit">>)
        ELSE pc'[t] = "build" /\ trace'[t] = Append(trace[t], <<pos[t], "miss">>)

C6_PutStep(t) ==
    (pc[t] = "put" /\ pc'[t] # "put") =>
        LET before  == Range(LruKeys(lru))
            evicted == before \ Range(LruKeys(lru'))
        IN  /\ LruHas(lru', H(t))
            /\ evicted # {} =>
                /\ Len(lru) = made.val
                /\ \E v \in evicted :
                    /\ evicted = {v}
                    /\ \A k \in before : Age(hist, k) <= Age(hist, v)

\* C6: every lookup hits exactly inside the window of the N most recent
\* templates, and every eviction takes the oldest cached template
C6_LruWindow == [][\A t \in Threads : C6_GetStep(t) /\ C6_PutStep(t)]_vars

\* capacity 1: A was compiled, then B, and the next lookup of A misses
C6_Witness ==
    /\ made = Ok(1)
    /\ pc[1] = "build"
    /\ H(1) = TDot
    /\ hist = <<TAlt, TDot>>

(***************************************************************************)
(* C7: concurrent callers of one Matcher, one delimiter pair.  Every call  *)
(* returns what it would return alone on an empty cache; the cache never   *)
(* holds two entries for one template, and every entry is the compilation  *)
(* of its key; an insertion of a template that is already cached (a second *)
(* caller that missed it at the same time) overwrites it with the same     *)
(* pattern and loses no entry; an insertion of a new template loses at     *)
(* most the least recently used entry, and only from a full cache.         *)
(***************************************************************************)
C7_State ==
    /\ \A t \in Threads : pc[t] = "done" => ret[t] = Expected(t)
    /\ \A j, k \in 1..Len(lru) : lru[j][1] = lru[k][1] => j = k
    /\ \A k \in 1..Len(lru) : Ok(lru[k][2]) = Compile(lru[k][1], D1[1], D1[2])

C7_PutStep(t) ==
    (pc[t] = "put" /\ pc'[t] # "put") =>
        LET before == Range(LruKeys(lru))
            after  == Range(LruKeys(lru'))
        IN  IF H(t) \in before
            THEN /\ after = before
                 /\ Len(lru') = Len(lru)
                 /\ LruValue(lru', H(t)) = LruValue(lru, H(t))
            ELSE /\ after = (before \ (before \ after)) \cup {H(t)}
                 /\ \A k \in before \ after : k = lru[Len(lru)][1]
                 /\ before \ after # {} => Len(lru) = made.val

\* C7: under every interleaving the results are the cache-less ones, no
\* key is cached twice, and a put loses at most the least recent entry
C7_Concurrent == []C7_State /\ [][\A t \in Threads : C7_PutStep(t)]_vars

\* both callers missed the same template and both have inserted it
C7_Witness ==
    /\ pc[1] = "eval"
    /\ pc[2] = "eval"
    /\ H(1) = H(2)
    /\ <<pos[1], "put">> \in Range(trace[1])
    /\ <<pos[2], "put">> \in Range(trace[2])
    /\ Len(SelectSeq(lru, LAMBDA e : e[1] = H(1))) = 1

(***************************************************************************)
(* C8: the pattern build_regex returns.  As specified: for every template  *)
(* with balanced delimiters the result is '^', then the escaped literal    *)
(* spans and the parenthesised regions in encounter order, then '$'.       *)
(* Stated here for the templates whose regions are regular expressions     *)
(* (for the others build_regex returns the compile error of line 137).     *)
(***************************************************************************)
\* the nesting depth after the first k characters
DepthAt(s, d, k) == Count(s, d[1], k) - Count(s, d[2], k)

\* the top-level regions: <<i, j>> with the opening delimiter at i and the
\* delimiter that closes it at j
TopRegions(s, d) ==
    {r \in (1..Len(s)) \X (1..Len(s)) :
        /\ r[1] < r[2]
        /\ s[r[1]] = d[1] /\ DepthAt(s, d, r[1] - 1) = 0
        /\ DepthAt(s, d, r[2]) = 0
        /\ \A k \in r[1]..(r[2] - 1) : DepthAt(s, d, k) > 0}

\* every region is a regular expression on its own
RegionsValid(s, d) ==
    \A r \in TopRegions(s, d) :
        ValidRegex(<<"^">> \o SubSeq(s, r[1] + 1, r[2] - 1) \o <<"$">>)

RECURSIVE ShapeFrom(_, _, _, _)
\* the pattern text for the characters from k on, at nesting depth n
ShapeFrom(s, d, k, n) ==
    IF k > Len(s) THEN <<>>
    ELSE IF s[k] = d[1] THEN
        (IF n = 0 THEN <<"(">> ELSE <<s[k]>>) \o ShapeFrom(s, d, k + 1, n + 1)
    ELSE IF s[k] = d[2] THEN
        (IF n = 1 THEN <<")">> ELSE <<s[k]>>) \o ShapeFrom(s, d, k + 1, n - 1)
    ELSE (IF n = 0 THEN escape(<<s[k]>>) ELSE <<s[k]>>) \o ShapeFrom(s, d, k + 1, n)

\* ^lit0(region0)lit1(region1)...litK$
Shape(s, d) == <<"^">> \o ShapeFrom(s, d, 1, 0) \o <<"$">>

\* C8: build_regex returns exactly ^lit0(region0)...litK$ for every
\* balanced template whose regions are regular expressions
C8_ExactPattern ==
    (out # Pending /\ ~Malformed(tpl, D1) /\ RegionsValid(tpl, D1)) =>
        out = Ok(Shape(tpl, D1))

\* the same for the templates of one-byte characters, which the code
\* compiles as specified
C8_ExactPatternOneByte ==
    (out # Pending /\ ~Malformed(tpl, D1) /\ RegionsValid(tpl, D1)
     /\ ~Contains(tpl, "M")) =>
        out = Ok(Shape(tpl, D1))

\* the two examples of the specification
C8_Examples ==
    /\ (out # Pending /\ tpl = TCreateDelete) =>
            out = Ok(<<"^", "(", "c", "r", "e", "a", "t", "e", "|",
                       "d", "e", "l", "e", "t", "e", ")", "$">>)
    /\ (out # Pending /\ tpl = TFooBarBaz) =>
            out = Ok(<<"^", "f", "o", "o", "(", "a", "|", "b", ")", "b", "a", "r",
                       "(", "c", "|", "d", ")", "b", "a", "z", "$">>)

(***************************************************************************)
(* C9: Regexp::new(n) fails with InvalidCacheSize(n), and builds no        *)
(* Matcher, exactly when n = 0; it succeeds for every n >= 1.              *)
(***************************************************************************)
C9_NewChecksSize ==
    made # NotMade =>
        LET n == IF made.ok THEN made.val ELSE made.arg
        IN  /\ made.ok <=> n >= 1
            /\ ~made.ok =>
                /\ made = Err("InvalidCacheSize", 0)
                /\ Active = {}
                /\ lru = <<>>

\* the construction with capacity 0 has failed
C9_Witness == made = Err("InvalidCacheSize", 0)

(***************************************************************************)
(* C10: the cache key is the template text alone.  A hit serves the        *)
(* pattern compiled under whichever delimiter pair inserted the entry, so  *)
(* after calls with two pairs a call can return something else than the    *)
(* compilation under its own pair gives, and only through a hit; as long   *)
(* as the calls have used a single pair, every entry is the compilation    *)
(* of its key under that pair and every call returns the cache-less        *)
(* result.                                                                 *)
(***************************************************************************)
C10_StaleOnlyAcrossPairs ==
    /\ \A t \in Threads :
        pc[t] = "hit" =>
            \E d \in pairs : Ok(reg[t]) = Compile(H(t), d[1], d[2])
    /\ \A t \in Threads :
        (pc[t] = "done" /\ ret[t] # Expected(t)) =>
            /\ Cardinality(pairs) > 1
            /\ \E e \in Range(trace[t]) : e[2] = "hit"
    /\ \A d \in pairs :
        pairs = {d} =>
            \A k \in 1..Len(lru) : Ok(lru[k][2]) = Compile(lru[k][1], d[1], d[2])

\* "<a.b>(b)" was compiled under <,> and is then asked under (,) for the
\* needle "<a.b>b": the hit answers false, the compilation under (,) true
C10_Witness ==
    /\ pc[1] = "done"
    /\ haystack[1] = <<TBoth>>
    /\ delims[1] = D2
    /\ needle[1] = <<"<", "a", ".", "b", ">", "b">>
    /\ <<1, "hit">> \in Range(trace[1])
    /\ ret[1] = Ok(FALSE)
    /\ Expected(1) = Ok(TRUE)

(***************************************************************************)
(* C11: the hit path.  As specified: the lock is held for the lookup with  *)
(* its recency update only, and the pattern the lookup returned is         *)
(* evaluated after the lock is released; no thread evaluates a pattern     *)
(* while it holds the lock.  In the code the pattern is a borrow out of    *)
(* the guarded cache and is_match runs at line 45, inside the block of     *)
(* the guard (lines 39-50).                                                *)
(***************************************************************************)
\* thread t is about to evaluate, or is evaluating, a pattern
Evaluating(t) == pc[t] \in {"hit", "eval"}

\* C11: no thread evaluates a pattern against a needle while it holds the
\* cache lock
C11_NoEvalUnderLock == \A t \in Threads : Evaluating(t) => lock # t

\* the part of C11 that the code has: the pattern that was just compiled
\* and inserted (line 62) is evaluated without the lock
C11_NewPatternEvalUnlocked == \A t \in Threads : pc[t] = "eval" => lock # t

(***************************************************************************)
(* C12: the miss path.  The balancer, the compiler with its validation     *)
(* compile and Regex::new run while the thread does not hold the lock:     *)
(* the guard of the lookup is dropped after the miss and the lock is taken *)
(* again only for the insertion, so a thread that compiles does not keep   *)
(* another thread from its lookup or its insertion.                        *)
(***************************************************************************)
\* the steps of the call of thread t for its current entry
StepsHere(t) == SelectSeq(trace[t], LAMBDA e : e[1] = pos[t])

\* the last n steps of a sequence (all of them when it is shorter)
LastSteps(q, n) == SubSeq(q, IF Len(q) > n THEN Len(q) - n + 1 ELSE 1, Len(q))

C12_State ==
    \A t \in Threads :
        /\ pc[t] \in {"build", "lock_w"} => lock # t
        /\ pc[t] = "build" =>
                LastSteps(StepsHere(t), 2) = <<<<pos[t], "lock">>, <<pos[t], "miss">>>>
        /\ pc[t] = "put" =>
                StepsHere(t) = <<<<pos[t], "lock">>, <<pos[t], "miss">>,
                                 <<pos[t], "build">>, <<pos[t], "lock">>>>
        /\ pc[t] = "build" =>
                \A u \in Threads \ {t} :
                    pc[u] \in {"lock_r", "lock_w"} =>
                        \/ ENABLED (LockR(u) \/ LockW(u))
                        \/ lock \in Threads \ {t, u}

C12_BuildStep(t) ==
    (pc[t] = "build" /\ pc'[t] # "build") =>
        /\ lock # t /\ lock' = lock
        /\ lru' = lru
        /\ trace'[t] = Append(trace[t], <<pos[t], "build">>)

\* C12: the build runs without the lock, between the guard of the lookup
\* and the guard of the insertion, and leaves lock and cache alone
C12_CompileOutsideLock == []C12_State /\ [][\A t \in Threads : C12_BuildStep(t)]_vars

\* one thread is compiling while the other is inside its critical section
C12_Witness ==
    /\ pc[1] = "build"
    /\ pc[2] \in {"get", "put"}
    /\ lock = 2

(***************************************************************************)
(* C13: the structural indexing error.  As specified: for every template   *)
(* the balancer accepts, build_regex never returns NotIndex, whatever the  *)
(* width of the characters.  The balancer counts characters (line 73) and  *)
(* the compiler slices at byte offsets (lines 112, 125, 140), so the two   *)
(* disagree as soon as a character of more than one byte comes before or   *)
(* inside a region.                                                        *)
(***************************************************************************)
\* C13: when delimiter_indices succeeds, build_regex does not fail with
\* NotIndex
C13_NeverNotIndex ==
    (bal # Pending /\ out # Pending /\ bal.ok) =>
        ~(~out.ok /\ out.err = "NotIndex")

\* the same for the templates of one-byte characters, where character
\* indices and byte offsets coincide
C13_NeverNotIndexOneByte ==
    (bal # Pending /\ out # Pending /\ bal.ok /\ ~Contains(tpl, "M")) =>
        ~(~out.ok /\ out.err = "NotIndex")

(***************************************************************************)
(* C14: delimiter_indices returns UnbalancedBraces(template) exactly when  *)
(* the depth (+1 on a delimiter-start, -1 on a delimiter-end) is negative  *)
(* after some character or is not zero after the last one; a depth that    *)
(* was negative is an error whatever follows; in every other case the      *)
(* result is a boundary list.                                              *)
(***************************************************************************)
C14_UnbalancedIff ==
    bal # Pending =>
        /\ bal = Err("UnbalancedBraces", tpl) <=>
                \/ \E k \in 1..Len(tpl) : DepthAt(tpl, D1, k) < 0
                \/ DepthAt(tpl, D1, Len(tpl)) # 0
        /\ bal # Err("UnbalancedBraces", tpl) =>
                /\ bal.ok
                /\ \A k \in 1..Len(bal.val) : bal.val[k] \in 0..Len(tpl)

\* a close before its open: the depth is zero at the end but was negative
C14_Witness ==
    /\ bal = Err("UnbalancedBraces", tpl)
    /\ Len(tpl) > 0
    /\ DepthAt(tpl, D1, 1) < 0
    /\ DepthAt(tpl, D1, Len(tpl)) = 0

(***************************************************************************)
(* C15: the boundary list.  As specified: even length, strictly increasing *)
(* indices, pairs (start inclusive, end exclusive) that do not overlap,    *)
(* one pair per top-level region from its delimiter-start to one past the  *)
(* delimiter-end that closes it, and no pair for a nested delimiter, which *)
(* lies strictly inside the enclosing pair.  Two regions side by side      *)
(* ("<a><b>") give the list 0, 3, 3, 6: the exclusive end of the first is  *)
(* the start of the second, so the indices do not strictly increase.       *)
(***************************************************************************)
\* the k-th pair of a boundary list
PairOf(idxs, k) == <<idxs[2 * k - 1], idxs[2 * k]>>

\* the number of pairs of a boundary list of even length
NumPairs(idxs) == Len(idxs) \div 2

\* the 1-based positions of the delimiters that are nested: an open that
\* takes the depth above 1, a close that leaves a depth above 0
NestedDelims(s, d) ==
    {j \in 1..Len(s) :
        \/ s[j] = d[1] /\ DepthAt(s, d, j) > 1
        \/ s[j] = d[2] /\ DepthAt(s, d, j) > 0}

\* what C15 says apart from the order of the indices
C15_Pairs(idxs) ==
    /\ Len(idxs) % 2 = 0
    /\ \A k \in 1..NumPairs(idxs) : PairOf(idxs, k)[1] < PairOf(idxs, k)[2]
    /\ \A k \in 1..(NumPairs(idxs) - 1) : PairOf(idxs, k)[2] <= PairOf(idxs, k + 1)[1]
    /\ {<<PairOf(idxs, k)[1] + 1, PairOf(idxs, k)[2]>> : k \in 1..NumPairs(idxs)}
            = TopRegions(tpl, D1)
    /\ NumPairs(idxs) = Cardinality(TopRegions(tpl, D1))
    /\ \A j \in NestedDelims(tpl, D1) :
            /\ \A k \in 1..NumPairs(idxs) :
                    PairOf(idxs, k)[1] + 1 # j /\ PairOf(idxs, k)[2] # j
            /\ \E k \in 1..NumPairs(idxs) :
                    PairOf(idxs, k)[1] + 1 < j /\ j < PairOf(idxs, k)[2]

\* C15 as it stands: the indices of the list strictly increase
C15_StrictlyIncreasing ==
    (bal # Pending /\ bal.ok) =>
        /\ C15_Pairs(bal.val)
        /\ \A k \in 1..(Len(bal.val) - 1) : bal.val[k] < bal.val[k + 1]

\* C15 as the code has it: the indices never decrease, the starts strictly
\* increase and so do the ends, a start is below its end, and an end equals
\* the next start exactly when the two regions are side by side
C15_BoundaryList ==
    (bal # Pending /\ bal.ok) =>
        /\ C15_Pairs(bal.val)
        /\ \A k \in 1..(Len(bal.val) - 1) : bal.val[k] <= bal.val[k + 1]
        /\ \A k \in 1..(Len(bal.val) - 2) : bal.val[k] < bal.val[k + 2]
        /\ \A k \in 1..(NumPairs(bal.val) - 1) :
                PairOf(bal.val, k)[2] = PairOf(bal.val, k + 1)[1]
                    <=> tpl[PairOf(bal.val, k)[2] + 1] = D1[1]

\* two regions side by side, the first with a nested pair inside
C15_Witness ==
    /\ bal # Pending /\ bal.ok
    /\ NumPairs(bal.val) = 2
    /\ PairOf(bal.val, 1)[2] = PairOf(bal.val, 2)[1]
    /\ NestedDelims(tpl, D1) # {}

(***************************************************************************)
(* C16: the size of the cache.  Under every interleaving of calls the      *)
(* cache holds at most N entries, N being the capacity given to            *)
(* Regexp::new, and N never changes; an insertion of a new key into a full *)
(* cache evicts exactly one entry and leaves the size at N; an insertion   *)
(* of a key that is present evicts none; an insertion of a new key into a  *)
(* cache that is not full evicts none and adds one entry.                  *)
(***************************************************************************)
C16_State ==
    /\ (made # NotMade /\ made.ok) => Len(lru) <= made.val
    /\ (made = NotMade \/ ~made.ok) => lru = <<>>

C16_PutStep(t) ==
    (pc[t] = "put" /\ pc'[t] # "put") =>
        LET before  == Range(LruKeys(lru))
            evicted == before \ Range(LruKeys(lru'))
        IN  IF H(t) \in before THEN
                /\ evicted = {}
                /\ Len(lru') = Len(lru)
            ELSE IF Len(lru) = made.val THEN
                /\ Cardinality(evicted) = 1
                /\ Len(lru') = made.val
            ELSE /\ evicted = {}
                 /\ Len(lru') = Len(lru) + 1

\* C16: at most N entries in every state, N fixed once the Matcher is
\* made, and every insertion evicts exactly as many entries as it must
C16_Bounded ==
    /\ []C16_State
    /\ [][(made # NotMade => made' = made) /\ \A t \in Threads : C16_PutStep(t)]_vars

\* a full cache of capacity 1 after an insertion that evicted the other
\* template, while the other thread is at its own insertion
C16_Witness ==
    /\ made = Ok(1)
    /\ Len(lru) = 1
    /\ Len(hist) = 2
    /\ hist[1] = lru[1][1]
    /\ \E t \in Threads : pc[t] = "eval" /\ H(t) = hist[1]
    /\ \E t \in Threads : pc[t] = "put"

(***************************************************************************)
(* C17: mutual exclusion.  The lookup with its recency update and the      *)
(* insertion with its eviction run with the guard of the one Mutex held:   *)
(* two threads are never inside a lookup or an insertion at the same time, *)
(* and the cache is read or changed by the thread that holds the lock      *)
(* only.                                                                   *)
(***************************************************************************)
\* thread t is inside a block that has the cache in its hands (lines 44-49
\* and 59)
InCritical(t) == pc[t] \in {"get", "hit", "put"}

C17_State ==
    /\ \A t \in Threads : InCritical(t) <=> lock = t
    /\ \A t, u \in Threads : (InCritical(t) /\ InCritical(u)) => t = u
    /\ lock \in Threads \cup {NoThread}

\* the cache changes, or a thread takes a pattern out of it, only in a
\* step of the thread that holds the lock
C17_Access ==
    /\ <<lru, hist>>' # <<lru, hist>> =>
            /\ lock \in Threads
            /\ pc[lock] \in {"get", "put"}
            /\ pc'[lock] # pc[lock]
    /\ \A t \in Threads :
            (reg'[t] # reg[t] /\ pc[t] = "get") =>
                lock = t /\ reg'[t] = LruValue(lru, H(t))

\* C17: the critical sections exclude each other and every access to the
\* cache is made under the lock
C17_MutualExclusion == []C17_State /\ [][C17_Access]_vars

\* one thread is inside its insertion while the other waits for the lock
\* of its lookup
C17_Witness ==
    /\ pc[1] = "put"
    /\ lock = 1
    /\ pc[2] = "lock_r"

(***************************************************************************)
(* C18: the content of the cache, one delimiter pair.  In every state,     *)
(* also after calls that failed or panicked, every key is a template with  *)
(* the delimiter-start character and balanced delimiters whose regions     *)
(* and composite pattern compile, and its value is the compilation of      *)
(* build_regex(key); what an insertion stores is the template at hand with *)
(* the pattern just compiled for it, never a literal or the needle; a      *)
(* step that ends a call, with an error or not, leaves the cache and its   *)
(* recency order as the earlier entries of the call left them.             *)
(***************************************************************************)
\* the keys the call of thread t has hit or inserted so far, in the order
\* of the steps
TouchedBy(t) ==
    LET steps == SelectSeq(trace[t], LAMBDA e : e[2] \in {"hit", "put"})
    IN  [k \in 1..Len(steps) |-> haystack[t][steps[k][1]]]

RECURSIVE TouchAll(_, _)
\* the recency order after the keys ks are touched one after the other
TouchAll(h, ks) == IF ks = <<>> THEN h ELSE TouchAll(Touch(h, Head(ks)), Tail(ks))

Min(a, b) == IF a <= b THEN a ELSE b

\* the key is a delimited, balanced template, and neither a needle nor a
\* literal of a call that is running
C18_Key(key) ==
    /\ Contains(key, D1[1])
    /\ ~Malformed(key, D1)
    /\ \A t \in Active :
            /\ key # needle[t]
            /\ \A i \in 1..Len(haystack[t]) :
                    IsLiteral(haystack[t][i], D1[1]) => key # haystack[t][i]

\* the value is the compilation of build_regex(key), which succeeded
C18_Entry(key, value) ==
    LET pattern == build_regex(key, D1[1], D1[2])
    IN  pattern.ok /\ Ok(value) = RegexNew(pattern.val)

C18_State ==
    /\ \A k \in 1..Len(lru) : C18_Key(lru[k][1])
    /\ \A t \in Threads :
            pc[t] = "done" => \A k \in 1..Len(lru) : C18_Entry(lru[k][1], lru[k][2])
    /\ \A t \in Active :
        LET recent == TouchAll(<<>>, TouchedBy(t))
            n      == Min(Len(recent), made.val)
        IN  /\ Len(hist) >= Len(recent)
            /\ SubSeq(hist, 1, Len(recent)) = recent
            /\ Len(lru) >= n
            /\ SubSeq(LruKeys(lru), 1, n) = SubSeq(recent, 1, n)

C18_Step(t) ==
    /\ (pc[t] = "put" /\ pc'[t] = "eval") =>
            /\ lru'[1] = <<H(t), reg[t]>>
            /\ C18_Entry(H(t), reg[t])
            /\ Range(lru') \subseteq Range(lru) \cup {<<H(t), reg[t]>>}
    /\ (pc[t] # pc'[t] /\ pc'[t] \in {"done", "idle"}) => UNCHANGED <<lru, hist>>
    /\ (pc[t] = "build" /\ pc'[t] = "done") =>
            /\ ~ret'[t].ok
            /\ ~LruHas(lru', H(t))

\* C18: every entry is a compiled delimited template, and the end of a
\* call, failed or not, undoes nothing
C18_CacheContent ==
    /\ []C18_State
    /\ [][/\ \A t \in Threads : C18_Step(t)
          /\ (\A t \in Threads : ~(pc[t] = "put" /\ pc'[t] = "eval")) =>
                Range(lru') \subseteq Range(lru)]_vars

\* the call failed on its second template after it inserted the first,
\* which is now the most recent of two entries
C18_Witness ==
    /\ pc[1] = "done"
    /\ haystack[1] = <<TAlt, TOpen>>
    /\ ret[1] = Err("UnbalancedBraces", TOpen)
    /\ <<1, "put">> \in Range(trace[1])
    /\ Len(lru) = 2
    /\ lru[1][1] = TAlt

(***************************************************************************)
(* C19: termination.  The guard is gone after every way out of the two     *)
(* critical sections (hit and return, hit and continue, miss, insertion),  *)
(* so a thread outside them, and in particular one that waits for the      *)
(* lock, does not hold it; an entry of the haystack makes the call take    *)
(* the lock at most twice; the call goes over its haystack once, from the  *)
(* first entry on; and when the threads are scheduled and the lock is      *)
(* fair, every call that was entered returns.                              *)
(***************************************************************************)
\* how many times the step e occurs in the history of the call of thread t
Occurs(t, e) == Cardinality({k \in 1..Len(trace[t]) : trace[t][k] = e})

C19_State ==
    \A t \in Threads :
        /\ pc[t] \in {"idle", "loop", "lock_r", "build", "lock_w", "eval", "done"} =>
                lock # t
        /\ pc[t] # "idle" =>
                /\ pos[t] \in 1..(Len(haystack[t]) + 1)
                /\ \A k \in 1..Len(trace[t]) : trace[t][k][1] \in 1..pos[t]
                /\ \A j, k \in 1..Len(trace[t]) : j < k => trace[t][j][1] <= trace[t][k][1]
                /\ \A i \in 1..Len(haystack[t]) :
                        /\ Occurs(t, <<i, "lock">>) <= 2
                        /\ \A step \in {"literal", "hit", "miss", "hit_eval", "build",
                                         "put", "eval"} : Occurs(t, <<i, step>>) <= 1

\* the steps that end a critical section release the lock
C19_Release(t) ==
    (lock = t /\ pc'[t] # pc[t] /\ pc'[t] \in {"loop", "build", "eval", "done"}) =>
        lock' = NoThread

\* C19: no lock is held outside the critical sections, at most two
\* acquisitions per entry, one pass over the haystack, and every call that
\* was entered returns
C19_Terminates ==
    /\ []C19_State
    /\ [][\A t \in Threads : C19_Release(t)]_vars
    /\ \A t \in Threads : (pc[t] # "idle") ~> (pc[t] = "done")

\* both calls have returned; one of them waited twice for the lock for
\* its second entry, the other was answered by a hit
C19_Witness ==
    /\ pc[1] = "done" /\ pc[2] = "done"
    /\ haystack[1] = <<TB, TA>>
    /\ Occurs(1, <<2, "lock">>) = 2
    /\ Occurs(2, <<1, "hit_eval">>) = 1

=============================================================================
